---- MODULE Spec2Model ----
(***************************************************************************)
(* Model of Firmware/src/main.cpp: a single-axis stepper sequencer.        *)
(* loop() is modelled block by block (command block, forward block,        *)
(* rewind block, dwell block), in the order the code runs them; pc names   *)
(* the block loop() runs next, and pc = "cmd" is a loop-iteration boundary. *)
(* The millisecond clock advances between any two blocks.                   *)
(***************************************************************************)
EXTENDS Integers, Sequences, FiniteSets, TLC

VARIABLES
    motorRunning,   \* bool motorRunning                       (main.cpp:14)
    isRewinding,    \* bool isRewinding                        (main.cpp:15)
    waitStartTime,  \* unsigned long waitStartTime             (main.cpp:16)
    isWaiting,      \* bool isWaiting                          (main.cpp:17)
    enablePin,      \* level of ENABLE_PIN, "HIGH" = disabled  (main.cpp:25)
    currentPos,     \* motor1.currentPosition()
    targetPos,      \* motor1.targetPosition()
    coast,          \* steps motor1 still travels the old way before reversing
    now,            \* millis(), an unsigned ClockBits-bit counter
    linesLeft,      \* lines the serial peer will still send
    pc,             \* the block of loop() that runs next
    available,      \* Serial.available() > 0 in this iteration (main.cpp:39)
    command,        \* String command of this iteration        (main.cpp:41)
    out,            \* status lines printed in this iteration
    pinWrites,      \* digitalWrite(ENABLE_PIN, ..) calls of this iteration
    moveCalls,      \* motor1.moveTo(..) calls of this iteration
    rt,             \* observer: progress of the last forward/rewind trip
    ran,            \* the guarded blocks whose body ran in this iteration
    tickSeen,       \* the clock advanced since the last dwell block
    sinceWait       \* observer: true ms since waitStartTime was recorded

vars == <<motorRunning, isRewinding, waitStartTime, isWaiting, enablePin,
          currentPos, targetPos, coast, now, linesLeft, pc, available,
          command, out, pinWrites, moveCalls, rt, ran, tickSeen, sinceWait>>

----------------------------------------------------------------------------
(* Program constants *)

STEP == 50
WAITING_TIME == 5000

(* Bounds of the model *)

MaxLines == 2
MaxCoast == 1
ClockBits == 13

ClockModulus == 2 ^ ClockBits

\* The clock is observed in quanta of a quarter of its range, and loop()
\* comes round in less than one quantum.
TickMs == 2 ^ (ClockBits - 2)

----------------------------------------------------------------------------
(* Command text: command.trim(); command.toLowerCase()                      *)

UpperCase == <<"A", "B", "C", "D", "E", "F", "G", "H", "I", "J", "K", "L", "M",
               "N", "O", "P", "Q", "R", "S", "T", "U", "V", "W", "X", "Y", "Z">>
LowerCase == <<"a", "b", "c", "d", "e", "f", "g", "h", "i", "j", "k", "l", "m",
               "n", "o", "p", "q", "r", "s", "t", "u", "v", "w", "x", "y", "z">>

IsSpace(c) == c \in {" ", "\t", "\r", "\n"}

ToLowerChar(c) ==
    IF \E i \in 1..Len(UpperCase) : UpperCase[i] = c
    THEN LowerCase[CHOOSE i \in 1..Len(UpperCase) : UpperCase[i] = c]
    ELSE c

RECURSIVE TrimLeft(_)
TrimLeft(s) ==
    IF s # <<>> /\ IsSpace(Head(s)) THEN TrimLeft(Tail(s)) ELSE s

RECURSIVE TrimRight(_)
TrimRight(s) ==
    IF s # <<>> /\ IsSpace(s[Len(s)])
    THEN TrimRight(SubSeq(s, 1, Len(s) - 1))
    ELSE s

trim(s) == TrimRight(TrimLeft(s))

toLowerCase(s) == [i \in 1..Len(s) |-> ToLowerChar(s[i])]

\* readStringUntil('\n') followed by trim() and toLowerCase()
Normalize(line) == toLowerCase(trim(line))

CmdOn == <<"#", "o", "n">>
CmdOff == <<"#", "o", "f", "f">>

\* The lines the serial peer may send (without the terminating '\n').
RawLines ==
    { <<"#", "o", "n">>,
      <<" ", "#", "O", "n", "\r">>,
      <<"#", "o", "f", "f">>,
      <<"\t", "#", "O", "F", "F", " ">>,
      <<"f", "o", "o">>,
      <<"#", "o", " ", "n">>,
      <<>> }

----------------------------------------------------------------------------
(* The four states of the sequencer, read off the three flags               *)

IDLE == ~motorRunning /\ ~isRewinding /\ ~isWaiting
RUNNING == motorRunning /\ ~isWaiting /\ ~isRewinding
WAITING == motorRunning /\ isWaiting /\ ~isRewinding
REWINDING == isRewinding /\ ~motorRunning /\ ~isWaiting

driverEnabled == enablePin = "LOW"

\* motor1.distanceToGo()
distanceToGo == targetPos - currentPos

Sign(x) == IF x > 0 THEN 1 ELSE IF x < 0 THEN -1 ELSE 0

----------------------------------------------------------------------------
(* Observer of the trip: #on, forward move, dwell, #off, rewind             *)

RtNone == [phase |-> "none", start |-> 0]

RtStep(ev) ==
    CASE ev = "on" -> [phase |-> "fwd", start |-> currentPos]
      [] ev = "off" ->
            IF rt.phase = "idle" THEN [rt EXCEPT !.phase = "rew"] ELSE RtNone
      [] ev = "fwdDone" ->
            IF rt.phase = "fwd" THEN [rt EXCEPT !.phase = "dwell"] ELSE RtNone
      [] ev = "dwellDone" ->
            IF rt.phase = "dwell" THEN [rt EXCEPT !.phase = "idle"] ELSE RtNone
      [] ev = "rewDone" ->
            IF rt.phase = "rew" THEN [rt EXCEPT !.phase = "done"] ELSE RtNone
      [] OTHER -> rt

----------------------------------------------------------------------------
(* The motion profile executor (AccelStepper motor1)                        *)

\* motor1.moveTo(absolute): a motor in motion that is sent the other way
\* first decelerates, travelling up to MaxCoast more steps the old way.
CoastChoices(absolute) ==
    IF /\ distanceToGo # 0
       /\ absolute # currentPos
       /\ Sign(distanceToGo) # Sign(absolute - currentPos)
    THEN 0..MaxCoast
    ELSE {0}

moveTo(absolute) ==
    /\ targetPos' = absolute
    /\ coast' \in CoastChoices(absolute)
    /\ moveCalls' = <<absolute>>

\* motor1.run(): at most one step per call, none when the step is not due
\* yet or when the motor stands at its target.
RunOutcomes ==
    IF coast > 0
    THEN { <<currentPos, coast>>,
           <<currentPos - Sign(distanceToGo), coast - 1>> }
    ELSE IF distanceToGo = 0
    THEN { <<currentPos, 0>> }
    ELSE { <<currentPos, 0>>, <<currentPos + Sign(distanceToGo), 0>> }

\* Mutant: no step is ever due (the speed of motor1 was left at zero).
run_Stalled == UNCHANGED <<currentPos, coast>>

run ==
    \E r \in RunOutcomes :
        /\ currentPos' = r[1]
        /\ coast' = r[2]

----------------------------------------------------------------------------

TypeOK ==
    /\ motorRunning \in BOOLEAN
    /\ isRewinding \in BOOLEAN
    /\ isWaiting \in BOOLEAN
    /\ waitStartTime \in 0..(ClockModulus - 1)
    /\ now \in 0..(ClockModulus - 1)
    /\ enablePin \in {"HIGH", "LOW"}
    /\ currentPos \in Int
    /\ targetPos \in Int
    /\ coast \in 0..MaxCoast
    /\ linesLeft \in 0..MaxLines
    /\ pc \in {"cmd", "fwd", "rew", "dwell"}
    /\ available \in BOOLEAN
    /\ rt.phase \in {"none", "fwd", "dwell", "idle", "rew", "done"}
    /\ ran \subseteq {"fwd", "rew", "dwell"}
    /\ tickSeen \in BOOLEAN
    /\ sinceWait \in 0..ClockModulus

\* The state setup() leaves.
Init ==
    /\ motorRunning = FALSE
    /\ isRewinding = FALSE
    /\ waitStartTime = 0
    /\ isWaiting = FALSE
    /\ enablePin = "HIGH"
    /\ currentPos = 0
    /\ targetPos = 0
    /\ coast = 0
    /\ now = 0
    /\ linesLeft = MaxLines
    /\ pc = "cmd"
    /\ available = FALSE
    /\ command = <<>>
    /\ out = <<>>
    /\ pinWrites = <<>>
    /\ moveCalls = <<>>
    /\ rt = RtNone
    /\ ran = {}
    /\ tickSeen = FALSE
    /\ sinceWait = 0

----------------------------------------------------------------------------
(* Command block, main.cpp:39-80                                            *)

\* command == "#on", command == "#off"
IsOn(cmd) == cmd = CmdOn

\* Mutant: startsWith("#o") in place of the comparison.
IsOff_Prefix(cmd) == Len(cmd) >= 2 /\ SubSeq(cmd, 1, 2) = <<"#", "o">>

IsOff(cmd) == cmd = CmdOff

\* Mutant: the rewind flag is not tested.
OnAccepted_NoRewindTest == ~motorRunning /\ ~isWaiting

OnAccepted == ~motorRunning /\ ~isRewinding /\ ~isWaiting

\* Mutant: "#off" is never rejected.
OffAccepted_Always == TRUE

\* Mutant: "#off" is refused during a forward move, as "#on" is.
OffAccepted_NotRunning == ~isRewinding /\ (~motorRunning \/ isWaiting)

OffAccepted == ~isRewinding

\* digitalWrite(ENABLE_PIN, LOW), the first write of an iteration
EnableDriver ==
    /\ enablePin' = "LOW"
    /\ pinWrites' = <<"LOW">>

\* Mutant: the active-low level is taken for active-high.
DisableDriver_WrongLevel ==
    /\ enablePin' = "LOW"
    /\ pinWrites' = Append(pinWrites, "LOW")

\* digitalWrite(ENABLE_PIN, HIGH)
DisableDriver ==
    /\ enablePin' = "HIGH"
    /\ pinWrites' = Append(pinWrites, "HIGH")

ForwardTarget == currentPos + STEP

\* Mutant: the rewind is taken from the target, not from the position.
RewindTarget_FromTarget == targetPos - STEP

RewindTarget == currentPos - STEP

OnFlags ==
    /\ motorRunning' = TRUE
    /\ isWaiting' = FALSE
    /\ isRewinding' = isRewinding

\* Mutant: line 68 is missing, the dwell flag survives "#off".
OffFlags_KeepWaiting ==
    /\ motorRunning' = FALSE
    /\ isWaiting' = isWaiting
    /\ isRewinding' = TRUE

\* Mutant: line 67 is missing, motorRunning survives "#off".
OffFlags_KeepRunning ==
    /\ motorRunning' = motorRunning
    /\ isWaiting' = FALSE
    /\ isRewinding' = TRUE

\* Mutant: lines 67 and 68 are missing, "#off" only sets isRewinding.
OffFlags_OnlyRewinding ==
    /\ motorRunning' = motorRunning
    /\ isWaiting' = isWaiting
    /\ isRewinding' = TRUE

OffFlags ==
    /\ motorRunning' = FALSE
    /\ isWaiting' = FALSE
    /\ isRewinding' = TRUE

OnCommand ==
    IF OnAccepted
    THEN /\ out' = <<"MotorOn">>
         /\ EnableDriver
         /\ moveTo(ForwardTarget)
         /\ OnFlags
         /\ rt' = RtStep("on")
         /\ UNCHANGED <<waitStartTime, currentPos, sinceWait>>
    ELSE /\ out' = <<"Busy">>
         /\ pinWrites' = <<>>
         /\ moveCalls' = <<>>
         /\ UNCHANGED <<motorRunning, isRewinding, isWaiting, waitStartTime,
                        enablePin, currentPos, targetPos, coast, rt,
                        sinceWait>>

OffCommand ==
    IF OffAccepted
    THEN /\ out' = <<"MotorOff">>
         /\ EnableDriver
         /\ moveTo(RewindTarget)
         /\ OffFlags
         /\ rt' = RtStep("off")
         /\ sinceWait' = 0
         /\ UNCHANGED <<waitStartTime, currentPos>>
    ELSE /\ out' = <<"AlreadyRewinding">>
         /\ pinWrites' = <<>>
         /\ moveCalls' = <<>>
         /\ UNCHANGED <<motorRunning, isRewinding, isWaiting, waitStartTime,
                        enablePin, currentPos, targetPos, coast, rt,
                        sinceWait>>

UnknownCommand ==
    /\ out' = <<"Unknown">>
    /\ pinWrites' = <<>>
    /\ moveCalls' = <<>>
    /\ UNCHANGED <<motorRunning, isRewinding, isWaiting, waitStartTime,
                   enablePin, currentPos, targetPos, coast, rt, sinceWait>>

\* Serial.available() == 0: the command block is skipped.
NoLine ==
    /\ pc = "cmd"
    /\ pc' = "fwd"
    /\ available' = FALSE
    /\ command' = <<>>
    /\ out' = <<>>
    /\ pinWrites' = <<>>
    /\ moveCalls' = <<>>
    /\ ran' = {}
    /\ UNCHANGED <<motorRunning, isRewinding, isWaiting, waitStartTime,
                   enablePin, currentPos, targetPos, coast, now, linesLeft, rt,
                   tickSeen, sinceWait>>

ReadLine(line) ==
    /\ pc = "cmd"
    /\ linesLeft > 0
    /\ pc' = "fwd"
    /\ linesLeft' = linesLeft - 1
    /\ available' = TRUE
    /\ command' = Normalize(line)
    /\ IF IsOn(Normalize(line)) THEN OnCommand
       ELSE IF IsOff(Normalize(line)) THEN OffCommand
       ELSE UnknownCommand
    /\ ran' = {}
    /\ UNCHANGED <<now, tickSeen>>

LoopCommand == NoLine \/ \E line \in RawLines : ReadLine(line)

----------------------------------------------------------------------------
(* Forward block, main.cpp:83-94                                            *)

\* Mutant: the distance is tested before motor1.run() is called.
ForwardDone_BeforeRun == distanceToGo = 0 /\ ~isWaiting

\* Mutant: the test of isWaiting is missing from the completion test.
ForwardDone_NoWaitingTest == distanceToGo' = 0

\* Mutant: the move counts as complete with one step left.
ForwardDone_Early == distanceToGo' <= 1 /\ ~isWaiting

ForwardDone == distanceToGo' = 0 /\ ~isWaiting

\* Mutant: the driver is disabled as soon as the forward move completes.
EnterWaiting_Disable ==
    /\ out' = Append(out, "StepsCompleted")
    /\ waitStartTime' = now
    /\ isWaiting' = TRUE
    /\ enablePin' = "HIGH"
    /\ pinWrites' = Append(pinWrites, "HIGH")

\* Mutant: the status line of the completion is missing.
EnterWaiting_Silent ==
    /\ out' = out
    /\ waitStartTime' = now
    /\ isWaiting' = TRUE
    /\ UNCHANGED <<enablePin, pinWrites>>

\* The body of the completion test: the enable line is not written.
EnterWaiting ==
    /\ out' = Append(out, "StepsCompleted")
    /\ waitStartTime' = now
    /\ isWaiting' = TRUE
    /\ UNCHANGED <<enablePin, pinWrites>>

LoopForward ==
    /\ pc = "fwd"
    /\ pc' = "rew"
    /\ IF motorRunning
       THEN /\ run
            /\ targetPos' = targetPos
            /\ IF ForwardDone
               THEN /\ EnterWaiting
                    /\ rt' = RtStep("fwdDone")
                    /\ sinceWait' = 0
               ELSE UNCHANGED <<out, waitStartTime, isWaiting, rt, enablePin,
                                pinWrites, sinceWait>>
            /\ ran' = ran \cup {"fwd"}
       ELSE UNCHANGED <<currentPos, targetPos, coast, out, waitStartTime,
                        isWaiting, rt, enablePin, pinWrites, sinceWait, ran>>
    /\ UNCHANGED <<motorRunning, isRewinding, now, linesLeft, available,
                   command, moveCalls, tickSeen>>

----------------------------------------------------------------------------
(* Rewind block, main.cpp:97-108                                            *)

\* Mutant: the test of the forward block, wrong for a negative distance.
RewindDone_NotPositive == distanceToGo' <= 0

RewindDone == distanceToGo' = 0

LoopRewind ==
    /\ pc = "rew"
    /\ pc' = "dwell"
    /\ IF isRewinding
       THEN /\ run
            /\ targetPos' = targetPos
            /\ IF RewindDone
               THEN /\ out' = Append(out, "RewindComplete")
                    /\ DisableDriver
                    /\ isRewinding' = FALSE
                    /\ rt' = RtStep("rewDone")
               ELSE UNCHANGED <<out, pinWrites, enablePin, isRewinding, rt>>
            /\ ran' = ran \cup {"rew"}
       ELSE UNCHANGED <<currentPos, targetPos, coast, out, pinWrites,
                        enablePin, isRewinding, rt, ran>>
    /\ UNCHANGED <<motorRunning, isWaiting, waitStartTime, now, linesLeft,
                   available, command, moveCalls, tickSeen, sinceWait>>

----------------------------------------------------------------------------
(* Dwell block, main.cpp:111-120                                            *)

\* millis() - waitStartTime, in unsigned arithmetic
Elapsed == (now - waitStartTime) % ClockModulus

\* Mutant: the ten seconds of the comments in place of WAITING_TIME.
DwellExpired_TenSeconds == Elapsed >= 2 * WAITING_TIME

\* Mutant: a deadline waitStartTime + WAITING_TIME compared with millis().
DwellExpired_Deadline == now >= (waitStartTime + WAITING_TIME) % ClockModulus

DwellExpired == Elapsed >= WAITING_TIME

LoopDwell ==
    /\ pc = "dwell"
    /\ pc' = "cmd"
    /\ IF isWaiting
       THEN /\ IF DwellExpired
               THEN /\ out' = Append(out, "WaitComplete")
                    /\ DisableDriver
                    /\ motorRunning' = FALSE
                    /\ isWaiting' = FALSE
                    /\ rt' = RtStep("dwellDone")
                    /\ sinceWait' = 0
               ELSE UNCHANGED <<out, pinWrites, enablePin, motorRunning,
                                isWaiting, rt, sinceWait>>
            /\ ran' = ran \cup {"dwell"}
       ELSE UNCHANGED <<out, pinWrites, enablePin, motorRunning, isWaiting,
                        rt, sinceWait, ran>>
    /\ tickSeen' = FALSE
    /\ UNCHANGED <<isRewinding, waitStartTime, currentPos, targetPos, coast,
                   now, linesLeft, available, command, moveCalls>>

----------------------------------------------------------------------------
(* The millisecond clock                                                    *)

Tick ==
    /\ ~tickSeen
    /\ tickSeen' = TRUE
    /\ now' = (now + TickMs) % ClockModulus
    /\ sinceWait' = IF ~isWaiting THEN sinceWait
                    ELSE IF sinceWait + TickMs > ClockModulus THEN ClockModulus
                    ELSE sinceWait + TickMs
    /\ UNCHANGED <<motorRunning, isRewinding, waitStartTime, isWaiting,
                   enablePin, currentPos, targetPos, coast, linesLeft, pc,
                   available, command, out, pinWrites, moveCalls, rt, ran>>

----------------------------------------------------------------------------

Next == LoopCommand \/ LoopForward \/ LoopRewind \/ LoopDwell \/ Tick

Spec == Init /\ [][Next]_vars

\* loop() is called again for ever, the clock keeps advancing, and a step
\* of the motor that is asked for over and over is eventually due.
Loop == LoopCommand \/ LoopForward \/ LoopRewind \/ LoopDwell

MotorStep == (LoopForward \/ LoopRewind) /\ currentPos' # currentPos

Fairness ==
    /\ WF_vars(Loop)
    /\ WF_vars(Tick)
    /\ SF_vars(MotorStep)

LiveSpec == Spec /\ Fairness

----------------------------------------------------------------------------
(* Steps of loop(), as action predicates                                    *)

\* The command block consumed a line in this step.
ConsumedLine == pc = "cmd" /\ pc' = "fwd" /\ available'

ConsumedOn == ConsumedLine /\ command' = CmdOn

ConsumedOff == ConsumedLine /\ command' = CmdOff

ConsumedOther == ConsumedLine /\ command' # CmdOn /\ command' # CmdOff

\* What a rejected or unknown command must leave alone.
CommandFrame ==
    /\ UNCHANGED <<motorRunning, isRewinding, isWaiting, waitStartTime,
                   enablePin, currentPos, targetPos, coast>>
    /\ pinWrites' = <<>>
    /\ moveCalls' = <<>>

----------------------------------------------------------------------------
(* C1: a consumed "#on" is accepted iff the state is IDLE; when it is       *)
(* rejected (RUNNING, WAITING, REWINDING) the command block changes no      *)
(* flag, target, position, wait start time or enable line, and prints only  *)
(* the rejection line.                                                      *)
C1_OnAcceptedIffIdle ==
    [][ ConsumedOn =>
          /\ (out' = <<"MotorOn">>) <=> IDLE
          /\ (moveCalls' # <<>>) <=> IDLE
          /\ IDLE => /\ RUNNING'
                     /\ driverEnabled'
                     /\ targetPos' = currentPos + STEP
          /\ ~IDLE => /\ CommandFrame
                      /\ out' = <<"Busy">> ]_vars

\* A "#on" was rejected during the dwell.
C1_Witness ==
    pc = "fwd" /\ available /\ command = CmdOn /\ out = <<"Busy">> /\ WAITING

----------------------------------------------------------------------------
(* C2: a consumed "#off" in IDLE, RUNNING or WAITING is accepted: the       *)
(* enable line is driven to enabled, the target becomes the position at     *)
(* the command minus STEP, and the state becomes REWINDING; also from IDLE  *)
(* when no "#on" was ever sent.                                             *)
C2_OffAccepted ==
    [][ (ConsumedOff /\ (IDLE \/ RUNNING \/ WAITING)) =>
          /\ out' = <<"MotorOff">>
          /\ pinWrites' = <<"LOW">>
          /\ driverEnabled'
          /\ moveCalls' = <<currentPos - STEP>>
          /\ targetPos' = currentPos - STEP
          /\ currentPos' = currentPos
          /\ REWINDING' ]_vars

\* The first line ever sent was "#off", accepted from IDLE at position 0.
C2_Witness ==
    /\ pc = "fwd" /\ available /\ command = CmdOff
    /\ linesLeft = MaxLines - 1
    /\ REWINDING /\ driverEnabled
    /\ currentPos = 0 /\ targetPos = -STEP

----------------------------------------------------------------------------
(* C3: a "#off" consumed while REWINDING is rejected and does nothing to    *)
(* the rewind: target, state and enable line stay as they are, no move is   *)
(* commanded; the target never changes during a rewind, and the rewind      *)
(* ends at that target however many "#off" lines arrive.                    *)
C3_OffWhileRewinding ==
    [][ /\ (ConsumedOff /\ REWINDING) =>
            /\ CommandFrame
            /\ out' = <<"AlreadyRewinding">>
            /\ REWINDING'
            /\ driverEnabled'
        /\ isRewinding => targetPos' = targetPos
        /\ (isRewinding /\ ~isRewinding') => currentPos' = targetPos ]_vars

\* A "#off" was rejected in the middle of a rewind.
C3_Witness ==
    /\ pc = "fwd" /\ available /\ command = CmdOff
    /\ out = <<"AlreadyRewinding">>
    /\ REWINDING /\ distanceToGo # 0 /\ linesLeft = MaxLines - 2

----------------------------------------------------------------------------
(* C4: round trip. From IDLE at position P with the driver disabled, "#on"  *)
(* accepted, the forward move run to completion, the dwell expired, "#off"  *)
(* accepted and the rewind run to completion, with no other accepted        *)
(* command in between, end in IDLE with the driver disabled at position P;  *)
(* the IDLE state after the dwell is at position P + STEP.                  *)
C4_RoundTrip ==
    /\ rt.phase = "idle" =>
          IDLE /\ ~driverEnabled /\ currentPos = rt.start + STEP
    /\ rt.phase = "done" =>
          IDLE /\ ~driverEnabled /\ currentPos = rt.start

\* The whole trip was made and ended where it began.
C4_Witness ==
    rt.phase = "done" /\ IDLE /\ ~driverEnabled /\ currentPos = rt.start

----------------------------------------------------------------------------
(* C5: a "#off" consumed while RUNNING with distance left sets the target   *)
(* to the position at that moment minus STEP and makes the state REWINDING  *)
(* at once; the pre-empted forward move never enters WAITING, prints no     *)
(* "steps completed" and starts no dwell timer: those happen only in the    *)
(* forward block, while the last accepted command is the "#on" of the move. *)
C5_PreemptForward ==
    [][ /\ (ConsumedOff /\ RUNNING /\ distanceToGo # 0) =>
            /\ targetPos' = currentPos - STEP
            /\ currentPos' = currentPos
            /\ REWINDING'
            /\ rt'.phase = "none"
        /\ ( \/ ~isWaiting /\ isWaiting'
             \/ out' # out /\ out' # <<>> /\ out'[Len(out')] = "StepsCompleted"
             \/ waitStartTime' # waitStartTime ) =>
            /\ pc = "fwd"
            /\ rt.phase = "fwd"
            /\ RUNNING
        /\ (pc = "fwd" /\ ~motorRunning) => currentPos' = currentPos ]_vars

\* "#off" pre-empted a forward move that had made part of its way.
C5_Witness ==
    /\ pc = "fwd" /\ available /\ command = CmdOff /\ out = <<"MotorOff">>
    /\ REWINDING
    /\ rt.phase = "none"
    /\ currentPos > 0 /\ currentPos < STEP
    /\ targetPos = currentPos - STEP

----------------------------------------------------------------------------
(* C6: a "#off" consumed while WAITING cancels the dwell: the state is      *)
(* REWINDING in that same iteration, the dwell-expiry transition fires only *)
(* for a dwell no command has cancelled, and the driver is enabled all the  *)
(* way from the command to the completion of the rewind.                    *)
C6_PreemptDwell ==
    [][ /\ (ConsumedOff /\ WAITING) =>
            /\ REWINDING'
            /\ driverEnabled'
            /\ rt'.phase = "none"
        /\ (out' # out /\ out' # <<>> /\ out'[Len(out')] = "WaitComplete") =>
            /\ pc = "dwell"
            /\ WAITING
            /\ rt.phase = "dwell"
        /\ isRewinding => driverEnabled
        /\ (isRewinding /\ driverEnabled /\ ~driverEnabled') =>
            (pc = "rew" /\ ~isRewinding' /\ currentPos' = targetPos) ]_vars

\* "#off" cancelled a dwell that had already lasted WAITING_TIME.
C6_Witness ==
    /\ pc = "fwd" /\ available /\ command = CmdOff /\ out = <<"MotorOff">>
    /\ REWINDING /\ driverEnabled
    /\ currentPos = STEP /\ targetPos = 0
    /\ (now - waitStartTime) % ClockModulus >= WAITING_TIME

----------------------------------------------------------------------------
(* C7: a consumed line that, trimmed and lower-cased, is neither "#on" nor  *)
(* "#off" prints the unknown-command line and does nothing else: no write   *)
(* of the enable line, no move commanded, no change of motorRunning,        *)
(* isRewinding, isWaiting or the wait start time.                           *)
C7_UnknownNoEffect ==
    [][ ConsumedOther =>
          /\ out' = <<"Unknown">>
          /\ CommandFrame ]_vars

\* A line with a blank inside "#on" was consumed during a forward move.
C7_Witness ==
    /\ pc = "fwd" /\ available /\ command = <<"#", "o", " ", "n">>
    /\ out = <<"Unknown">>
    /\ RUNNING /\ currentPos > 0

----------------------------------------------------------------------------
(* C8 as stated: the driver is enabled iff the state is RUNNING or          *)
(* REWINDING or a move was commanded in the current iteration.              *)
C8_EnabledIffMoving ==
    driverEnabled <=> (RUNNING \/ REWINDING \/ moveCalls # <<>>)

(* C8 as amended: the driver is enabled iff the state is RUNNING, WAITING   *)
(* or REWINDING.                                                            *)
C8_EnabledIffNotIdle ==
    driverEnabled <=> (RUNNING \/ WAITING \/ REWINDING)

\* The driver is enabled in the dwell, in an iteration that commanded no move.
C8_Witness ==
    WAITING /\ driverEnabled /\ moveCalls = <<>> /\ distanceToGo = 0

----------------------------------------------------------------------------
(* C9: the enable line stays asserted through the dwell: the completion of  *)
(* the forward move does not write it, and the driver goes from enabled to  *)
(* disabled only in the dwell-expiry transition to IDLE or at the           *)
(* completion of a rewind; at every iteration boundary the driver is        *)
(* disabled iff the state is IDLE.                                          *)
C9_EnabledThroughDwell ==
    [][ /\ WAITING => driverEnabled
        /\ (~isWaiting /\ isWaiting') =>
              (pinWrites' = pinWrites /\ enablePin' = enablePin)
        /\ (driverEnabled /\ ~driverEnabled') =>
              \/ pc = "dwell" /\ WAITING /\ DwellExpired /\ IDLE'
              \/ pc = "rew" /\ REWINDING /\ distanceToGo' = 0 /\ IDLE'
        /\ pc = "cmd" => (~driverEnabled <=> IDLE) ]_vars

\* An iteration boundary half way into the dwell, the driver still enabled.
C9_Witness ==
    /\ pc = "cmd" /\ WAITING /\ driverEnabled
    /\ (now - waitStartTime) % ClockModulus = 2 * TickMs

----------------------------------------------------------------------------
(* C10: exactly one of IDLE, RUNNING, WAITING, REWINDING is active:         *)
(* motorRunning and isRewinding are never both true, isWaiting and          *)
(* isRewinding are never both true, isWaiting implies motorRunning; and     *)
(* every step that enters WAITING is taken from RUNNING, by the forward     *)
(* block, with no distance left.                                            *)
C10_WellFormed ==
    [][ /\ IDLE \/ RUNNING \/ WAITING \/ REWINDING
        /\ ~(motorRunning /\ isRewinding)
        /\ ~(isWaiting /\ isRewinding)
        /\ isWaiting => motorRunning
        /\ (~isWaiting /\ isWaiting') =>
              (pc = "fwd" /\ RUNNING /\ distanceToGo' = 0 /\ WAITING') ]_vars

\* The dwell was entered and every line has been consumed.
C10_Witness ==
    WAITING /\ linesLeft = 0 /\ now # waitStartTime /\ currentPos = STEP

----------------------------------------------------------------------------
(* The state as one value, and the number of status lines a step prints     *)

State ==
    CASE IDLE -> "IDLE"
      [] RUNNING -> "RUNNING"
      [] WAITING -> "WAITING"
      [] REWINDING -> "REWINDING"
      [] OTHER -> "ILLEGAL"

Printed == IF pc = "cmd" /\ pc' = "fwd" THEN Len(out') ELSE Len(out') - Len(out)

----------------------------------------------------------------------------
(* C11: every state transition (IDLE->RUNNING, any->REWINDING,              *)
(* RUNNING->WAITING, REWINDING->IDLE, WAITING->IDLE) prints exactly one     *)
(* status line, every consumed command that causes no transition prints     *)
(* exactly one, and a step that consumes no command and makes no            *)
(* transition prints none; so what an iteration prints is the line of its  *)
(* command, if it consumed one, and the lines of its transitions.           *)
C11_OneLinePerEvent ==
    [][ /\ Printed = IF ConsumedLine \/ State' # State THEN 1 ELSE 0
        /\ State' # State =>
              <<State, State'>> \in
                  { <<"IDLE", "RUNNING">>, <<"IDLE", "REWINDING">>,
                    <<"RUNNING", "REWINDING">>, <<"WAITING", "REWINDING">>,
                    <<"RUNNING", "WAITING">>, <<"REWINDING", "IDLE">>,
                    <<"WAITING", "IDLE">> }
        /\ (pc = "dwell" /\ pc' = "cmd") =>
              LET rest == IF available THEN Tail(out') ELSE out'
              IN  /\ available => out' # <<>>
                  /\ \A i \in 1..Len(rest) :
                        rest[i] \in {"StepsCompleted", "RewindComplete",
                                     "WaitComplete"} ]_vars

\* One iteration rejected a "#on" and completed the forward move: two lines.
C11_Witness ==
    pc = "cmd" /\ out = <<"Busy", "StepsCompleted">> /\ WAITING

----------------------------------------------------------------------------
----------------------------------------------------------------------------
(* C13: a command consumed in the iteration in which a completion or the    *)
(* dwell expiry would otherwise occur takes effect first. A "#off"          *)
(* consumed when the forward move has one step left gives REWINDING, and    *)
(* the iteration never shows WAITING; a "#off" consumed when the dwell has  *)
(* already expired gives REWINDING with the driver enabled, and the         *)
(* iteration never shows IDLE with the driver disabled; a "#on" consumed    *)
(* then is judged on the state before the expiry.                           *)
C13_CommandFirst ==
    [][ /\ (ConsumedOff /\ RUNNING /\ distanceToGo = 1) =>
              REWINDING' /\ targetPos' = currentPos - STEP
        /\ (ConsumedOff /\ WAITING /\ DwellExpired) =>
              REWINDING' /\ driverEnabled'
        /\ (ConsumedOn /\ WAITING /\ DwellExpired) =>
              WAITING' /\ out' = <<"Busy">>
        /\ (available /\ command = CmdOff /\ out # <<>>
              /\ out[1] = "MotorOff") =>
              /\ REWINDING /\ driverEnabled /\ out = <<"MotorOff">>
              /\ REWINDING' /\ driverEnabled' ]_vars

\* The end of an iteration whose "#off" came with one forward step left.
C13_Witness ==
    /\ pc = "cmd" /\ available /\ command = CmdOff /\ out = <<"MotorOff">>
    /\ REWINDING /\ driverEnabled
    /\ moveCalls = <<-1>> /\ targetPos = -1

----------------------------------------------------------------------------
(* C14 as stated: within one iteration at most one command is applied and   *)
(* at most one of the forward-progress, rewind-progress and dwell-expiry    *)
(* blocks runs.                                                             *)
C14_OneCheckPerIteration ==
    Len(moveCalls) <= 1 /\ Cardinality(ran) <= 1

(* C14 as amended: within one iteration at most one line is consumed and    *)
(* at most one command applied; forward-progress and rewind-progress never  *)
(* both run, nor rewind-progress and dwell-expiry; the dwell-expiry check   *)
(* runs only in iterations whose forward-progress block ran, and in every   *)
(* iteration that the state WAITING lasts through both run.                 *)
C14_ChecksPerIteration ==
    [][ /\ linesLeft' # linesLeft =>
              (pc = "cmd" /\ linesLeft' = linesLeft - 1)
        /\ Len(moveCalls') <= 1
        /\ ~({"fwd", "rew"} \subseteq ran')
        /\ ~({"rew", "dwell"} \subseteq ran')
        /\ "dwell" \in ran' => "fwd" \in ran'
        /\ (pc = "dwell" /\ pc' = "cmd" /\ WAITING) =>
              ran' = {"fwd", "dwell"} ]_vars

\* An iteration of the dwell: the forward block and the dwell check both ran.
C14_Witness ==
    pc = "cmd" /\ WAITING /\ ran = {"fwd", "dwell"} /\ out = <<>>

----------------------------------------------------------------------------
(* C15: the completion of a move is detected by the block that takes its    *)
(* final step, so at every iteration boundary RUNNING implies a non-zero    *)
(* remaining distance and REWINDING implies a non-zero remaining distance,  *)
(* also right after the iteration that commanded the move.                  *)
C15_NoLag ==
    [][ /\ pc = "cmd" => ((RUNNING \/ REWINDING) => distanceToGo # 0)
        /\ (pc = "fwd" /\ RUNNING /\ distanceToGo' = 0) => WAITING'
        /\ (pc = "rew" /\ REWINDING /\ distanceToGo' = 0) => IDLE'
        /\ (ConsumedLine /\ moveCalls' # <<>>) => distanceToGo' # 0 ]_vars

\* The forward block has just taken the final step and entered WAITING.
C15_Witness ==
    /\ pc = "rew" /\ WAITING /\ out = <<"StepsCompleted">>
    /\ distanceToGo = 0 /\ currentPos = STEP /\ sinceWait = 0

----------------------------------------------------------------------------
(* C16: a rewind cannot be interrupted and always finishes: while the       *)
(* state is REWINDING no line that arrives changes the target, the rewind   *)
(* ends in IDLE with the driver disabled at that target, and under fair     *)
(* execution of loop() and of the motor it does end.                        *)
C16_RewindFinishes ==
    /\ [][ /\ isRewinding => targetPos' = targetPos
           /\ (isRewinding /\ ConsumedLine) =>
                 (REWINDING' /\ moveCalls' = <<>>)
           /\ (isRewinding /\ ~isRewinding') =>
                 (IDLE' /\ ~driverEnabled' /\ currentPos' = targetPos) ]_vars
    /\ REWINDING ~> (IDLE /\ ~driverEnabled /\ currentPos = targetPos)

\* A "#on" arrived in the last iteration of a rewind, which still completed.
C16_Witness ==
    /\ pc = "dwell" /\ out = <<"Busy", "RewindComplete">>
    /\ IDLE /\ ~driverEnabled /\ currentPos = targetPos /\ currentPos = -STEP

----------------------------------------------------------------------------
(* C17: quiescence. The serial peer sends finitely many lines; once no more *)
(* arrive, and loop(), the motor and the clock keep going, the system       *)
(* reaches IDLE with the driver disabled and stays there for ever: in IDLE  *)
(* a step that consumes no line changes neither the state, nor the          *)
(* position, nor the enable line.                                           *)
C17_Quiescence ==
    /\ <>[](IDLE /\ ~driverEnabled /\ distanceToGo = 0)
    /\ [][ (IDLE /\ ~ConsumedLine) =>
              /\ IDLE'
              /\ UNCHANGED <<currentPos, targetPos, enablePin>>
              /\ Printed = 0 ]_vars

\* All lines are consumed and an idle iteration ended away from the origin.
C17_Witness ==
    /\ pc = "cmd" /\ linesLeft = 0 /\ ~available /\ out = <<>>
    /\ IDLE /\ ~driverEnabled /\ distanceToGo = 0 /\ currentPos # 0
    /\ ran = {}

----------------------------------------------------------------------------
(* C18: the wait start time is recorded once per completed forward move,    *)
(* by the forward block that brings RUNNING's distance to zero; in WAITING  *)
(* the forward block still runs every iteration but neither records the     *)
(* start time again nor prints "steps completed" again, and a rejected      *)
(* "#on" or an unknown line in WAITING does not restart or extend the dwell. *)
C18_RecordedOnce ==
    [][ /\ (RUNNING /\ WAITING') =>
              /\ pc = "fwd" /\ distanceToGo' = 0
              /\ waitStartTime' = now
              /\ out' = Append(out, "StepsCompleted")
        /\ waitStartTime' # waitStartTime => (RUNNING /\ WAITING')
        /\ (pc = "fwd" /\ pc' = "rew" /\ WAITING) =>
              /\ "fwd" \in ran'
              /\ WAITING'
              /\ out' = out
              /\ UNCHANGED <<waitStartTime, sinceWait>>
        /\ (WAITING /\ (ConsumedOn \/ ConsumedOther)) =>
              /\ WAITING'
              /\ UNCHANGED <<waitStartTime, sinceWait>> ]_vars

\* The forward block ran in the dwell, after a rejected "#on"; the start
\* time is still the one recorded a clock quantum ago.
C18_Witness ==
    /\ pc = "rew" /\ WAITING /\ "fwd" \in ran
    /\ available /\ command = CmdOn /\ out = <<"Busy">>
    /\ sinceWait = TickMs /\ Elapsed = TickMs

----------------------------------------------------------------------------
(* C19: the position is frozen outside moves: in IDLE and in WAITING the    *)
(* remaining distance is zero, no step taken from IDLE or WAITING changes   *)
(* the position, and only an accepted command leaves IDLE or WAITING for a  *)
(* moving state, although the forward block calls motor1.run() in every     *)
(* iteration of WAITING.                                                    *)
C19_PositionFrozen ==
    [][ /\ (IDLE \/ WAITING) => (distanceToGo = 0 /\ coast = 0)
        /\ (IDLE \/ WAITING) => currentPos' = currentPos
        /\ ((IDLE \/ WAITING) /\ ~(ConsumedLine /\ moveCalls' # <<>>)) =>
              /\ IDLE' \/ WAITING'
              /\ targetPos' = targetPos
        /\ (pc = "fwd" /\ pc' = "rew" /\ WAITING) => "fwd" \in ran' ]_vars

\* motor1.run() was called in the dwell, two clock quanta after the move.
C19_Witness ==
    /\ pc = "rew" /\ WAITING /\ "fwd" \in ran /\ ~available
    /\ currentPos = STEP /\ distanceToGo = 0
    /\ sinceWait = 2 * TickMs

----------------------------------------------------------------------------
(* C20: the dwell test is right across a wrap of the clock. With the clock  *)
(* an unsigned ClockBits-bit counter and the true time since the forward    *)
(* completion below 2^ClockBits, millis() - waitStartTime in unsigned       *)
(* arithmetic is the true elapsed time, the test is true exactly when the   *)
(* true elapsed time is at least WAITING_TIME, and a dwell block that runs  *)
(* after the counter wrapped ends the dwell exactly then.                   *)
C20_WrapSafe ==
    [][ /\ (isWaiting /\ sinceWait < ClockModulus) =>
              /\ Elapsed = sinceWait
              /\ DwellExpired <=> sinceWait >= WAITING_TIME
        /\ (pc = "dwell" /\ pc' = "cmd" /\ WAITING
              /\ now < waitStartTime /\ sinceWait < ClockModulus) =>
              (IDLE' <=> sinceWait >= WAITING_TIME) ]_vars

\* The counter wrapped during the dwell, which is now due to end.
C20_Witness ==
    /\ pc = "dwell" /\ WAITING
    /\ now < waitStartTime
    /\ sinceWait >= WAITING_TIME /\ sinceWait < ClockModulus
    /\ DwellExpired

====
